---- MODULE Spec2Model ----
(***************************************************************************)
(* Global-Med-Triage: the resilient aggregator (run_emergency_flow, the    *)
(* /ws/triage and POST /api/triage handlers, save_triage_log) and the      *)
(* persona hand-off of the voice agents (coral_project/triage.py).         *)
(*                                                                         *)
(* Python values: a dict is a record, a str is a sequence of tokens (so an *)
(* f-string is a concatenation and "" is <<>>), None is the record PyNone. *)
(***************************************************************************)
EXTENDS Integers, Sequences, FiniteSets, TLC

\* ------------------------------------------------------------ bounds
\* Messages / requests accepted by the two handlers in one run.
MaxRequests == 2
\* Persona transfers in one session.
MaxTransfers == 6
\* Conversation items created in one session.
MaxItems == 9
\* Length of a source history handed to _truncate_chat_ctx.
MaxLen == 5
\* Largest keep_last_n_messages handed to _truncate_chat_ctx.
MaxKeep == 3
\* KeyErrors raised by _transfer_to_agent in one session.
MaxKeyErrors == 1

\* ------------------------------------------------------------ Python values
PyNone == [none |-> TRUE]
Unset == [unset |-> TRUE]

\* dict.get(key, default)
Get(d, k, default) == IF k \in DOMAIN d THEN d[k] ELSE default

\* str(n) for the ESI levels the triage capability produces.
IntStr(n) ==
    CASE n = 1 -> <<"1">>
      [] n = 2 -> <<"2">>
      [] n = 3 -> <<"3">>
      [] n = 4 -> <<"4">>
      [] n = 5 -> <<"5">>
      [] OTHER -> <<"?">>

\* ------------------------------------------------------------ exceptions
\* What an awaited call can raise: [cls, msg], msg being str(e).
TimeoutExc == [cls |-> "TimeoutException", msg |-> <<"timed out">>]
StatusExc == [cls |-> "HTTPStatusError", msg |-> <<"HTTP 500">>]
AgentExc == [cls |-> "RuntimeError", msg |-> <<"agent unavailable">>]

\* A mutant: the handler names one transport error class only.
ExceptException_StatusOnly(cls) == cls = "HTTPStatusError"

\* `except Exception`: catches every Exception subclass; asyncio.CancelledError
\* derives from BaseException and passes through.
ExceptException(cls) == cls # "CancelledError"

\* ------------------------------------------------------------ capabilities
\* A mutant: translation is called before triage.
Order_TranslationEarly ==
    <<"voice", "translation", "triage", "history", "vitals", "insurance">>

\* run_emergency_flow's fixed sequence of capability calls.
Order == <<"voice", "triage", "translation", "history", "vitals", "insurance">>
NCap == Len(Order)
Caps == {Order[i] : i \in 1..NCap}

\* The keys of the dict run_emergency_flow returns.
ResultKeys == {"voice", "triage", "translation", "history", "vitals", "dispatch", "insurance"}

DefaultLanguage == <<"auto">>
AudioBytes == <<"ABC">>

\* voice_interface_agent.transcribe_audio: the dicts it may return; one lacks
\* "language", which the flow reads with .get(..., user_language).
VoiceReturns ==
    { [text |-> <<"chest pain">>, language |-> <<"es">>, panic |-> FALSE],
      [text |-> <<"fever">>, panic |-> TRUE] }

\* medical_triage_agent.analyze_symptoms: {esi_level, analysis}; one lacks
\* "esi_level", which the flow reads with .get('esi_level', 'unknown').
TriageReturns(text) ==
    { [esi_level |-> 2, analysis |-> <<"Mock analysis for: ">> \o text],
      [analysis |-> <<"no level for: ">> \o text] }

\* The JSON bodies the translation endpoint may answer with.
TranslationData(text, target) ==
    { [translatedText |-> <<"[">> \o target \o <<"] ">> \o text \o <<" (translated)">>],
      [detail |-> <<"quota">>] }

\* translate_medical: data.get("translatedText", text).
translate_medical(text, data) == Get(data, "translatedText", text)

\* The JSON bodies the history endpoint may answer with.
HistoryData ==
    { [history |-> <<"asthma">>, bytes |-> [val |-> 3]],
      [detail |-> <<"empty">>] }

\* collect_history: {"history": data.get("history", "No history found."),
\*                   "bytes": data.get("bytes")}.
collect_history(data) ==
    [history |-> Get(data, "history", <<"No history found.">>),
     bytes |-> Get(data, "bytes", PyNone)]

\* What the ML endpoint of analyze_vitals may do: answer with a JSON body, or
\* fail with a transport error, a non-200 status or anything else.
VitalsHttp ==
    { [kind |-> "json", data |-> [stress_level |-> <<"high">>, heart_rate |-> 70]],
      [kind |-> "json", data |-> [detail |-> <<"no estimate">>]],
      [kind |-> "RequestError"],
      [kind |-> "HTTPStatusError"],
      [kind |-> "Exception"] }

\* analyze_vitals: the defaults "unknown" / 0 for missing keys, and the same
\* dict, without any marker, from each of its three except branches.
analyze_vitals(http) ==
    IF http.kind = "json"
    THEN [stress_level |-> Get(http.data, "stress_level", <<"unknown">>),
          heart_rate |-> Get(http.data, "heart_rate", 0)]
    ELSE [stress_level |-> <<"unknown">>, heart_rate |-> 0]

VitalsReturns == {analyze_vitals(h) : h \in VitalsHttp}

\* insurance_verification_agent.verify_insurance.
InsuranceReturns == { [verified |-> TRUE, provider |-> <<"Acme Health">>] }

\* What the call of capability k may raise: translate_medical and
\* collect_history post with httpx and call raise_for_status(); the agents of
\* the other four raise an error of their own.
Raises(k) ==
    IF k \in {"translation", "history"} THEN {TimeoutExc, StatusExc} ELSE {AgentExc}

\* The label each except branch of run_emergency_flow puts before the cause.
Label(k) ==
    CASE k = "voice" -> <<"voice_interface: ">>
      [] k = "triage" -> <<"medical_triage: ">>
      [] k = "translation" -> <<"translation_error: ">>
      [] k = "history" -> <<"history_agent: ">>
      [] k = "vitals" -> <<"vitals_agent: ">>
      [] k = "insurance" -> <<"insurance_agent: ">>

\* A mutant: the triage branch reuses the voice branch's label.
Fallback_CopiedLabel(k, e, lang) ==
    CASE k = "voice" ->
           [text |-> <<>>, language |-> lang, panic |-> FALSE, error |-> Label("voice") \o e.msg]
      [] k = "triage" ->
           [esi_level |-> 5, analysis |-> <<"unavailable">>, error |-> Label("voice") \o e.msg]
      [] k = "translation" -> Label(k) \o e.msg
      [] k = "history" -> [history |-> <<"unavailable">>, error |-> Label(k) \o e.msg]
      [] k = "vitals" ->
           [stress_level |-> <<"unknown">>, heart_rate |-> 0, error |-> Label(k) \o e.msg]
      [] k = "insurance" ->
           [verified |-> FALSE, provider |-> <<"Unknown">>, error |-> Label(k) \o e.msg]

\* The value each except branch of run_emergency_flow assigns.
Fallback(k, e, lang) ==
    CASE k = "voice" ->
           [text |-> <<>>, language |-> lang, panic |-> FALSE, error |-> Label(k) \o e.msg]
      [] k = "triage" ->
           [esi_level |-> 5, analysis |-> <<"unavailable">>, error |-> Label(k) \o e.msg]
      [] k = "translation" -> Label(k) \o e.msg
      [] k = "history" -> [history |-> <<"unavailable">>, error |-> Label(k) \o e.msg]
      [] k = "vitals" ->
           [stress_level |-> <<"unknown">>, heart_rate |-> 0, error |-> Label(k) \o e.msg]
      [] k = "insurance" ->
           [verified |-> FALSE, provider |-> <<"Unknown">>, error |-> Label(k) \o e.msg]

\* ------------------------------------------------------------ state
VARIABLES
    dbConfigured,   \* os.getenv("DATABASE_URL") is set
    conn,           \* save_triage_log's connection: "none", "open" or "closed"
    rows,           \* rows inserted into triage_logs
    wsOpen,         \* the /ws/triage loop is running
    serving,        \* "none", "ws" or "rest": the handler at work
    pc,             \* where that handler is
    nreq,           \* messages and requests accepted so far
    req,            \* the message (ws) or TriageRequest (rest) being served
    user_language,  \* run_emergency_flow's parameter
    step,           \* index into Order of the capability being called
    slot,           \* the handler's locals voice_result .. insurance
    result,         \* the dict run_emergency_flow returned / `aggregated`
    err,            \* the exception the ws handler's outer except caught
    reply,          \* what was sent back for this message / request
    invoked,        \* history: the capability calls issued, with their inputs
    outcome,        \* history: what each call did
    collected,      \* history: the composite as it was when the flow returned
    lastSave        \* history: how save_triage_log ended

VARIABLES
    current_agent,  \* session.current_agent: the active persona's registry name
    prev_agent,     \* userdata.prev_agent: a registry name, or "None"
    transfers,      \* history: the transfers made, [from, to]
    chat_ctx,       \* each persona's chat_ctx.items
    nextId,         \* the id the next created item gets
    sessPc,         \* "enter": on_enter is due, "reply": generate_reply is due, "idle"
    entered,        \* history: what the last on_enter read and installed
    keyErrors       \* history: KeyErrors raised by _transfer_to_agent

sessVars == <<current_agent, prev_agent, transfers, chat_ctx, nextId, sessPc,
              entered, keyErrors>>

\* _truncate_chat_ctx and the copy of on_enter, applied on their own.
VARIABLES
    items,                  \* the source history
    keep_last_n_messages,   \* the three parameters of the last call
    keep_system_message,
    keep_function_call,
    new_items,              \* what the last call returned
    dest,                   \* the destination context of the copy
    once,                   \* history: dest after the first copy
    copies,                 \* copies made into dest
    ctmPc                   \* "build", "truncated" or "copied"

ctmVars == <<items, keep_last_n_messages, keep_system_message, keep_function_call,
             new_items, dest, once, copies, ctmPc>>

aggVars == <<dbConfigured, conn, rows, wsOpen, serving, pc, nreq, req,
             user_language, step, slot, result, err, reply, invoked, outcome,
             collected, lastSave>>

\* A local not yet bound; the translation local, a str once bound, gets an
\* unbound value of the same kind.
Unbound(k) == IF k = "translation" THEN <<"<unbound>">> ELSE Unset
NoSlots == [k \in Caps |-> Unbound(k)]
NoOutcome == [k \in Caps |-> [kind |-> "pending"]]
NoReply == [kind |-> "none"]

\* ------------------------------------------------------------ /ws/triage input
\* The JSON messages a client may send: no "audio" key, an empty one, a data
\* URL, and bare base64 with broken padding.
WsMessages ==
    { [note |-> <<"hello">>],
      [audio |-> <<>>],
      [audio |-> <<"data:audio/wav;base64", ",", "QUJD">>],
      [audio |-> <<"QUJ">>] }

\* `not data.get("audio")` is false: the key is there and (Python truthiness)
\* its value is not the empty string.
HasAudio(m) == "audio" \in DOMAIN m /\ m.audio # <<>>

RECURSIVE SplitLast(_)
\* audio_b64.split(",")[-1]: what follows the last comma.
SplitLast(s) ==
    IF \A i \in 1..Len(s) : s[i] # ","
    THEN s
    ELSE SplitLast(Tail(s))

\* base64.b64decode: the bytes, or binascii.Error on incorrect padding.
b64decode(s) ==
    IF s = <<"QUJD">>
    THEN [ok |-> TRUE, val |-> AudioBytes]
    ELSE [ok |-> FALSE, exc |-> [cls |-> "binascii.Error", msg |-> <<"Incorrect padding">>]]

\* ------------------------------------------------------------ run_emergency_flow
\* A mutant: translation is always asked for the caller's language.
Input_CallerLanguage(k) ==
    CASE k = "voice" -> [audio |-> AudioBytes, language |-> user_language]
      [] k = "triage" ->
           [text |-> Get(slot["voice"], "text", <<>>),
            language |-> Get(slot["voice"], "language", user_language)]
      [] k = "translation" ->
           [text |-> <<"ESI Level: ">> \o
                     (IF "esi_level" \in DOMAIN slot["triage"]
                      THEN IntStr(slot["triage"].esi_level)
                      ELSE <<"unknown">>),
            target |-> user_language]
      [] k = "history" -> [audio |-> AudioBytes]
      [] k = "vitals" -> [audio |-> AudioBytes]
      [] k = "insurance" -> [user_id |-> <<"REPLACE_WITH_REAL_USER_ID">>]

\* The argument run_emergency_flow builds for capability k from its locals.
Input(k) ==
    CASE k = "voice" -> [audio |-> AudioBytes, language |-> user_language]
      [] k = "triage" ->
           [text |-> Get(slot["voice"], "text", <<>>),
            language |-> Get(slot["voice"], "language", user_language)]
      [] k = "translation" ->
           [text |-> <<"ESI Level: ">> \o
                     (IF "esi_level" \in DOMAIN slot["triage"]
                      THEN IntStr(slot["triage"].esi_level)
                      ELSE <<"unknown">>),
            target |-> Get(slot["voice"], "language", user_language)]
      [] k = "history" -> [audio |-> AudioBytes]
      [] k = "vitals" -> [audio |-> AudioBytes]
      [] k = "insurance" -> [user_id |-> <<"REPLACE_WITH_REAL_USER_ID">>]

\* What the provider of capability k may return for that argument.
Returns(k, in) ==
    CASE k = "voice" -> VoiceReturns
      [] k = "triage" -> TriageReturns(in.text)
      [] k = "translation" ->
           {translate_medical(in.text, d) : d \in TranslationData(in.text, in.target)}
      [] k = "history" -> {collect_history(d) : d \in HistoryData}
      [] k = "vitals" -> VitalsReturns
      [] k = "insurance" -> InsuranceReturns

Dispatch == [status |-> <<"pending">>, location |-> <<"unknown">>]

\* A mutant: the history key is bound to the vitals local.
Composite_Swapped(s) ==
    [voice |-> s["voice"], triage |-> s["triage"], translation |-> s["translation"],
     history |-> s["vitals"], vitals |-> s["vitals"], dispatch |-> Dispatch,
     insurance |-> s["insurance"]]

\* The dict run_emergency_flow returns (and POST /api/triage aggregates).
Composite(s) ==
    [voice |-> s["voice"], triage |-> s["triage"], translation |-> s["translation"],
     history |-> s["history"], vitals |-> s["vitals"], dispatch |-> Dispatch,
     insurance |-> s["insurance"]]

\* After the call at `step` has been settled: the next call, or the return.
Advance ==
    /\ step' = step + 1
    /\ pc' = "call"

\* The flow issues the call of capability Order[step] and awaits it.
FlowInvoke ==
    /\ UNCHANGED <<sessVars, ctmVars>>
    /\ serving = "ws" /\ pc = "call" /\ step <= NCap
    /\ invoked' = Append(invoked, [cap |-> Order[step], input |-> Input(Order[step])])
    /\ pc' = "await"
    /\ UNCHANGED <<dbConfigured, conn, rows, wsOpen, serving, nreq, req,
                   user_language, step, slot, result, err, reply, outcome,
                   collected, lastSave>>

\* The awaited call returns v: the local is bound to it.
FlowReturn ==
    /\ UNCHANGED <<sessVars, ctmVars>>
    /\ serving = "ws" /\ pc = "await"
    /\ LET k == Order[step] IN
       \E v \in Returns(k, invoked[Len(invoked)].input) :
          /\ slot' = [slot EXCEPT ![k] = v]
          /\ outcome' = [outcome EXCEPT ![k] = [kind |-> "returned", value |-> v]]
    /\ Advance
    /\ UNCHANGED <<dbConfigured, conn, rows, wsOpen, serving, nreq, req,
                   user_language, result, err, reply, invoked, collected, lastSave>>

\* The awaited call raises e: `except Exception` binds the fallback value; an
\* exception the clause does not catch leaves the flow and reaches ws_triage.
FlowRaise ==
    /\ UNCHANGED <<sessVars, ctmVars>>
    /\ serving = "ws" /\ pc = "await"
    /\ LET k == Order[step] IN
       \E e \in Raises(k) :
          /\ outcome' = [outcome EXCEPT ![k] = [kind |-> "raised", exc |-> e]]
          /\ IF ExceptException(e.cls)
             THEN /\ slot' = [slot EXCEPT ![k] = Fallback(k, e, user_language)]
                  /\ Advance
                  /\ err' = err
             ELSE /\ slot' = slot
                  /\ step' = step
                  /\ pc' = "send_error"
                  /\ err' = e
    /\ UNCHANGED <<dbConfigured, conn, rows, wsOpen, serving, nreq, req,
                   user_language, result, reply, invoked, collected, lastSave>>

\* The request is cancelled while a call is in flight: CancelledError is raised
\* at the await, passes every `except Exception` of the flow and of ws_triage,
\* and ends the handler's task; nothing is returned and nothing is sent.
FlowCancel ==
    /\ UNCHANGED <<sessVars, ctmVars>>
    /\ serving = "ws" /\ pc = "await"
    /\ IF ExceptException("CancelledError")
       THEN /\ slot' = [slot EXCEPT ![Order[step]] =
                           Fallback(Order[step], [cls |-> "CancelledError", msg |-> <<>>],
                                    user_language)]
            /\ Advance
            /\ UNCHANGED <<wsOpen, serving>>
       ELSE /\ pc' = "cancelled"
            /\ wsOpen' = FALSE
            /\ serving' = "none"
            /\ UNCHANGED <<slot, step>>
    /\ outcome' = [outcome EXCEPT ![Order[step]] = [kind |-> "cancelled"]]
    /\ UNCHANGED <<dbConfigured, conn, rows, nreq, req, user_language,
                   result, err, reply, invoked, collected, lastSave>>

\* All six calls are settled: the flow returns the composite dict.
FlowFinish ==
    /\ UNCHANGED <<sessVars, ctmVars>>
    /\ serving = "ws" /\ pc = "call" /\ step = NCap + 1
    /\ result' = Composite(slot)
    /\ collected' = Composite(slot)
    /\ pc' = "persist"
    /\ UNCHANGED <<dbConfigured, conn, rows, wsOpen, serving, nreq, req,
                   user_language, step, slot, err, reply, invoked, outcome, lastSave>>

\* ------------------------------------------------------------ ws_triage
\* Per-message state of a handler, cleared when the next unit of work starts.
Fresh ==
    /\ step' = 1
    /\ slot' = NoSlots
    /\ result' = Unset
    /\ err' = Unset
    /\ reply' = NoReply
    /\ invoked' = <<>>
    /\ outcome' = NoOutcome
    /\ collected' = Unset
    /\ lastSave' = "none"
    /\ conn' = "none"

\* data = await websocket.receive_json()
WsReceive ==
    /\ UNCHANGED <<sessVars, ctmVars>>
    /\ wsOpen /\ serving = "none" /\ nreq < MaxRequests
    /\ \E m \in WsMessages : req' = m
    /\ serving' = "ws"
    /\ pc' = "received"
    /\ nreq' = nreq + 1
    /\ user_language' = DefaultLanguage
    /\ Fresh
    /\ UNCHANGED <<dbConfigured, rows, wsOpen>>

\* if not audio_b64: send {"error": "No audio provided."} and continue
WsNoAudio ==
    /\ UNCHANGED <<sessVars, ctmVars>>
    /\ serving = "ws" /\ pc = "received"
    /\ ~HasAudio(req)
    /\ reply' = [kind |-> "error", error |-> <<"No audio provided.">>]
    /\ serving' = "none"
    /\ pc' = "idle"
    /\ UNCHANGED <<dbConfigured, conn, rows, wsOpen, nreq, req, user_language,
                   step, slot, result, err, invoked, outcome, collected, lastSave>>

\* audio_bytes = base64.b64decode(audio_b64.split(",")[-1]); a decoding error
\* is caught by the outer except, otherwise run_emergency_flow starts.
WsDecode ==
    /\ UNCHANGED <<sessVars, ctmVars>>
    /\ serving = "ws" /\ pc = "received"
    /\ HasAudio(req)
    /\ LET d == b64decode(SplitLast(req.audio)) IN
       IF d.ok
       THEN /\ pc' = "call"
            /\ err' = err
       ELSE /\ pc' = "send_error"
            /\ err' = d.exc
    /\ UNCHANGED <<dbConfigured, conn, rows, wsOpen, serving, nreq, req,
                   user_language, step, slot, result, reply, invoked, outcome,
                   collected, lastSave>>

\* except Exception as e: await websocket.send_json({"error": str(e)})
WsSendError ==
    /\ UNCHANGED <<sessVars, ctmVars>>
    /\ serving = "ws" /\ pc = "send_error"
    /\ reply' = [kind |-> "error", error |-> err.msg]
    /\ serving' = "none"
    /\ pc' = "idle"
    /\ UNCHANGED <<dbConfigured, conn, rows, wsOpen, nreq, req, user_language,
                   step, slot, result, err, invoked, outcome, collected, lastSave>>

\* await websocket.send_json(result)
WsSend ==
    /\ UNCHANGED <<sessVars, ctmVars>>
    /\ serving = "ws" /\ pc = "send"
    /\ reply' = [kind |-> "json", body |-> result]
    /\ serving' = "none"
    /\ pc' = "idle"
    /\ UNCHANGED <<dbConfigured, conn, rows, wsOpen, nreq, req, user_language,
                   step, slot, result, err, invoked, outcome, collected, lastSave>>

\* ------------------------------------------------------------ save_triage_log
\* A mutant: no try/except around the call, so what save_triage_log raises
\* reaches the handler's error path.
AfterSave_Unguarded(raised) == IF raised THEN "send_error" ELSE "send"

\* Where the handler goes once `await save_triage_log(...)` is over: the call
\* sits in try/except Exception: pass, so the reply is sent either way.
AfterSave(raised) == "send"

\* await save_triage_log(...): without DATABASE_URL it returns at once.
SaveBegin ==
    /\ UNCHANGED <<sessVars, ctmVars>>
    /\ serving \in {"ws", "rest"} /\ pc = "persist"
    /\ IF dbConfigured
       THEN /\ pc' = "connecting"
            /\ lastSave' = lastSave
       ELSE /\ pc' = AfterSave(FALSE)
            /\ lastSave' = "no_target"
    /\ UNCHANGED <<dbConfigured, conn, rows, wsOpen, serving, nreq, req,
                   user_language, step, slot, result, err, reply, invoked, outcome,
                   collected>>

\* conn = await asyncpg.connect(db_url): on an exception the function returns.
SaveConnect ==
    /\ UNCHANGED <<sessVars, ctmVars>>
    /\ serving \in {"ws", "rest"} /\ pc = "connecting"
    /\ \E ok \in BOOLEAN :
          IF ok
          THEN /\ conn' = "open"
               /\ pc' = "inserting"
               /\ lastSave' = lastSave
          ELSE /\ conn' = conn
               /\ pc' = AfterSave(FALSE)
               /\ lastSave' = "connect_failed"
    /\ UNCHANGED <<dbConfigured, rows, wsOpen, serving, nreq, req, user_language,
                   step, slot, result, err, reply, invoked, outcome, collected>>

\* A mutant: no finally clause, a failed insert returns without conn.close().
SaveInsert_NoFinally ==
    /\ UNCHANGED <<sessVars, ctmVars>>
    /\ serving \in {"ws", "rest"} /\ pc = "inserting"
    /\ \E ok \in BOOLEAN :
          IF ok
          THEN /\ rows' = rows + 1
               /\ lastSave' = "saved"
               /\ pc' = "closing"
          ELSE /\ rows' = rows
               /\ lastSave' = "insert_failed"
               /\ pc' = AfterSave(FALSE)
    /\ UNCHANGED <<dbConfigured, conn, wsOpen, serving, nreq, req, user_language,
                   step, slot, result, err, reply, invoked, outcome, collected>>

\* await conn.execute(INSERT ...): except Exception: pass
SaveInsert ==
    /\ UNCHANGED <<sessVars, ctmVars>>
    /\ serving \in {"ws", "rest"} /\ pc = "inserting"
    /\ \E ok \in BOOLEAN :
          IF ok
          THEN /\ rows' = rows + 1
               /\ lastSave' = "saved"
          ELSE /\ rows' = rows
               /\ lastSave' = "insert_failed"
    /\ pc' = "closing"
    /\ UNCHANGED <<dbConfigured, conn, wsOpen, serving, nreq, req, user_language,
                   step, slot, result, err, reply, invoked, outcome, collected>>

\* finally: await conn.close(); what close raises leaves save_triage_log.
SaveClose ==
    /\ UNCHANGED <<sessVars, ctmVars>>
    /\ serving \in {"ws", "rest"} /\ pc = "closing"
    /\ \E ok \in BOOLEAN :
          IF ok
          THEN /\ conn' = "closed"
               /\ pc' = AfterSave(FALSE)
               /\ lastSave' = lastSave
               /\ err' = err
          ELSE /\ conn' = conn
               /\ pc' = AfterSave(TRUE)
               /\ lastSave' = "close_failed"
               /\ err' = IF AfterSave(TRUE) = "send_error"
                         THEN [cls |-> "InterfaceError", msg |-> <<"close failed">>]
                         ELSE err
    /\ UNCHANGED <<dbConfigured, rows, wsOpen, serving, nreq, req, user_language,
                   step, slot, result, reply, invoked, outcome, collected>>

\* ------------------------------------------------------------ POST /api/triage
\* TriageRequest: symptoms, and language with its default "en".
RestRequests ==
    { [symptoms |-> <<"Chest pain and shortness of breath">>, language |-> <<"es">>],
      [symptoms |-> <<"Headache">>, language |-> <<"en">>] }

\* A mutant: the voice entry does not echo the symptoms.
RestSlots_NoEcho(r) ==
    [k \in Caps |->
        CASE k = "voice" -> [text |-> <<>>, language |-> r.language, panic |-> FALSE]
          [] k = "history" -> [history |-> <<"No audio provided.">>]
          [] k = "vitals" -> [stress_level |-> <<"unknown">>, heart_rate |-> 0]
          [] k = "insurance" -> [verified |-> FALSE, provider |-> <<"Unknown">>]
          [] OTHER -> Unbound(k)]

\* The locals the endpoint sets without calling a capability.
RestSlots(r) ==
    [k \in Caps |->
        CASE k = "voice" -> [text |-> r.symptoms, language |-> r.language, panic |-> FALSE]
          [] k = "history" -> [history |-> <<"No audio provided.">>]
          [] k = "vitals" -> [stress_level |-> <<"unknown">>, heart_rate |-> 0]
          [] k = "insurance" -> [verified |-> FALSE, provider |-> <<"Unknown">>]
          [] OTHER -> Unbound(k)]

\* The request arrives; analyze_symptoms(request.symptoms, ...) is awaited.
RestRequest ==
    /\ UNCHANGED <<sessVars, ctmVars>>
    /\ serving = "none" /\ nreq < MaxRequests
    /\ \E r \in RestRequests :
          /\ req' = r
          /\ step' = 1
          /\ result' = Unset
          /\ err' = Unset
          /\ reply' = NoReply
          /\ outcome' = NoOutcome
          /\ collected' = Unset
          /\ lastSave' = "none"
          /\ conn' = "none"
          /\ slot' = RestSlots(r)
          /\ invoked' = <<[cap |-> "triage",
                           input |-> [text |-> r.symptoms, language |-> r.language]]>>
    /\ serving' = "rest"
    /\ pc' = "r_triage"
    /\ nreq' = nreq + 1
    /\ UNCHANGED <<dbConfigured, rows, wsOpen, user_language>>

\* analyze_symptoms returns; the translation text reads triage_result['esi_level'],
\* a KeyError when the key is missing; then translate_medical is awaited.
RestTriageReturn ==
    /\ UNCHANGED <<sessVars, ctmVars>>
    /\ serving = "rest" /\ pc = "r_triage"
    /\ \E v \in TriageReturns(req.symptoms) :
          /\ slot' = [slot EXCEPT !["triage"] = v]
          /\ outcome' = [outcome EXCEPT !["triage"] = [kind |-> "returned", value |-> v]]
          /\ IF "esi_level" \in DOMAIN v
             THEN /\ invoked' = Append(invoked,
                                  [cap |-> "translation",
                                   input |-> [text |-> <<"ESI Level: ">> \o IntStr(v.esi_level),
                                              target |-> req.language]])
                  /\ pc' = "r_translation"
                  /\ UNCHANGED <<serving, reply>>
             ELSE /\ invoked' = invoked
                  /\ pc' = "idle"
                  /\ serving' = "none"
                  /\ reply' = [kind |-> "http500", error |-> <<"KeyError: 'esi_level'">>]
    /\ UNCHANGED <<dbConfigured, conn, rows, wsOpen, nreq, req, user_language,
                   step, result, err, collected, lastSave>>

\* An exception of either awaited capability leaves the endpoint: no try
\* surrounds the two calls, so the framework answers 500.
RestRaise ==
    /\ UNCHANGED <<sessVars, ctmVars>>
    /\ serving = "rest" /\ pc \in {"r_triage", "r_translation"}
    /\ \E e \in Raises(IF pc = "r_triage" THEN "triage" ELSE "translation") :
          /\ outcome' = [outcome EXCEPT ![IF pc = "r_triage" THEN "triage" ELSE "translation"] =
                            [kind |-> "raised", exc |-> e]]
          /\ reply' = [kind |-> "http500", error |-> e.msg]
    /\ pc' = "idle"
    /\ serving' = "none"
    /\ UNCHANGED <<dbConfigured, conn, rows, wsOpen, nreq, req, user_language,
                   step, slot, result, err, invoked, collected, lastSave>>

\* translate_medical returns; `aggregated` is built.
RestTranslationReturn ==
    /\ UNCHANGED <<sessVars, ctmVars>>
    /\ serving = "rest" /\ pc = "r_translation"
    /\ LET in == invoked[Len(invoked)].input IN
       \E d \in TranslationData(in.text, in.target) :
          LET v == translate_medical(in.text, d)
              s == [slot EXCEPT !["translation"] = v]
          IN /\ slot' = s
             /\ outcome' = [outcome EXCEPT !["translation"] = [kind |-> "returned", value |-> v]]
             /\ result' = Composite(s)
             /\ collected' = Composite(s)
    /\ pc' = "persist"
    /\ UNCHANGED <<dbConfigured, conn, rows, wsOpen, serving, nreq, req,
                   user_language, step, err, reply, invoked, lastSave>>

\* return aggregated
RestReturn ==
    /\ UNCHANGED <<sessVars, ctmVars>>
    /\ serving = "rest" /\ pc = "send"
    /\ reply' = [kind |-> "json", body |-> result]
    /\ serving' = "none"
    /\ pc' = "idle"
    /\ UNCHANGED <<dbConfigured, conn, rows, wsOpen, nreq, req, user_language,
                   step, slot, result, err, invoked, outcome, collected, lastSave>>

\* ------------------------------------------------------------ persona hand-off
\* entrypoint: userdata.personas, the registry filled before the session starts.
Personas == {"triage", "support", "billing"}

\* A mutant: every agent also has a tool that transfers to itself.
TransferTools_WithSelf(a) == Personas

\* The transfer tools each agent class exposes, by the name they pass on.
TransferTools(a) ==
    CASE a = "triage" -> {"support", "billing"}
      [] a = "support" -> {"triage", "billing"}
      [] a = "billing" -> {"triage", "support"}

\* A mutant: prev_agent is set to the agent transferred to.
transfer_to_agent_PrevIsNext(name, current, prev) ==
    IF name \in Personas
    THEN [raised |-> FALSE, prev_agent |-> name, next_agent |-> name]
    ELSE [raised |-> TRUE, prev_agent |-> prev, next_agent |-> current]

\* A mutant: a transfer clears prev_agent.
transfer_to_agent_ForgetsPrev(name, current, prev) ==
    IF name \in Personas
    THEN [raised |-> FALSE, prev_agent |-> "None", next_agent |-> name]
    ELSE [raised |-> TRUE, prev_agent |-> prev, next_agent |-> current]

\* A mutant: prev_agent is written before the registry is looked up.
transfer_to_agent_WriteFirst(name, current, prev) ==
    IF name \in Personas
    THEN [raised |-> FALSE, prev_agent |-> current, next_agent |-> name]
    ELSE [raised |-> TRUE, prev_agent |-> current, next_agent |-> current]

\* BaseAgent._transfer_to_agent: personas[name] is looked up first (a KeyError
\* for an unknown name), then prev_agent = current_agent; next_agent is returned.
transfer_to_agent(name, current, prev) ==
    IF name \in Personas
    THEN [raised |-> FALSE, prev_agent |-> current, next_agent |-> name]
    ELSE [raised |-> TRUE, prev_agent |-> prev, next_agent |-> current]

\* The class name of each registered agent: self.__class__.__name__.
ClassName(p) ==
    CASE p = "triage" -> "TriageAgent"
      [] p = "support" -> "SupportAgent"
      [] p = "billing" -> "BillingAgent"

\* ------------------------------------------------------------ conversation items
\* The items of a chat context: messages carry a role, tool items do not.
ToolTypes == {"function_call", "function_call_output"}
Message(id, role, content) ==
    [id |-> id, type |-> "message", role |-> role, content |-> content]
FunctionCall(id) == [id |-> id, type |-> "function_call"]
FunctionCallOutput(id) == [id |-> id, type |-> "function_call_output"]

\* The default of keep_last_n_messages.
KeepLastDefault == 6

\* A mutant: tool items are excluded whatever keep_function_call says.
valid_item_DropsTools(item, keep_system, keep_call) ==
    IF ~keep_system /\ item.type = "message" /\ item.role = "system"
    THEN FALSE
    ELSE item.type \notin ToolTypes

\* _valid_item, the filter of _truncate_chat_ctx.
valid_item(item, keep_system, keep_call) ==
    IF ~keep_system /\ item.type = "message" /\ item.role = "system"
    THEN FALSE
    ELSE IF ~keep_call /\ item.type \in ToolTypes
         THEN FALSE
         ELSE TRUE

RECURSIVE collect(_, _, _, _, _, _)
\* for item in reversed(items): a valid item is appended, and after each item
\* visited the loop breaks once len(new_items) >= keep_last_n_messages.  i is
\* the index of the item visited, acc the list so far.
collect(src, i, acc, keep_n, keep_system, keep_call) ==
    IF i = 0
    THEN acc
    ELSE LET grown == IF valid_item(src[i], keep_system, keep_call)
                      THEN Append(acc, src[i])
                      ELSE acc
         IN IF Len(grown) >= keep_n
            THEN grown
            ELSE collect(src, i - 1, grown, keep_n, keep_system, keep_call)

\* new_items[::-1]
Reversed(s) == [i \in 1..Len(s) |-> s[Len(s) + 1 - i]]

\* A mutant: the leading tool items are left in place.
pop_leading_Never(s) == s

RECURSIVE pop_leading(_)
\* while new_items and new_items[0].type in [...]: new_items.pop(0)
pop_leading(s) ==
    IF Len(s) > 0 /\ s[1].type \in ToolTypes
    THEN pop_leading(Tail(s))
    ELSE s

\* BaseAgent._truncate_chat_ctx.
truncate_chat_ctx(src, keep_n, keep_system, keep_call) ==
    pop_leading(Reversed(collect(src, Len(src), <<>>, keep_n, keep_system, keep_call)))

\* A mutant: every item of items_copy is appended.
extend_new_All(ctx, items_copy) == ctx \o items_copy

\* on_enter: the items of items_copy whose id is not among the ids of the
\* context are appended to it.
extend_new(ctx, items_copy) ==
    LET existing_ids == {ctx[i].id : i \in 1..Len(ctx)} IN
    ctx \o SelectSeq(items_copy, LAMBDA item : item.id \notin existing_ids)

\* f"You are the {agent_name}. {userdata.summarize()}"
SystemPrompt(agent_name) ==
    <<"You are the ", agent_name, ". ", "User data: Medical office triage system">>

\* A mutant: the previous agent's items are appended without looking at ids.
on_enter_ctx_NoDedup(own, hasPrev, prevItems, agent_name, id) ==
    LET copied == IF hasPrev
                  THEN own \o truncate_chat_ctx(prevItems, KeepLastDefault, FALSE, TRUE)
                  ELSE own
    IN Append(copied, Message(id, "system", SystemPrompt(agent_name)))

\* A mutant: the system message is added before the previous agent's items.
on_enter_ctx_SystemFirst(own, hasPrev, prevItems, agent_name, id) ==
    LET named == Append(own, Message(id, "system", SystemPrompt(agent_name)))
    IN IF hasPrev
       THEN extend_new(named, truncate_chat_ctx(prevItems, KeepLastDefault, FALSE, TRUE))
       ELSE named

\* on_enter: the context it installs, from the agent's own items, the previous
\* agent's items (when prev_agent is set) and the id of the new system item.
on_enter_ctx(own, hasPrev, prevItems, agent_name, id) ==
    LET copied == IF hasPrev
                  THEN extend_new(own, truncate_chat_ctx(prevItems, KeepLastDefault, FALSE, TRUE))
                  ELSE own
    IN Append(copied, Message(id, "system", SystemPrompt(agent_name)))

\* ------------------------------------------------------------ voice session
\* What `entered` holds from the moment an agent becomes current.
Entering(p) ==
    [agent |-> p, own |-> <<>>, hasPrev |-> FALSE, prevItems |-> <<>>,
     ctx |-> <<>>, id |-> 0, installed |-> FALSE, signalled |-> FALSE]

\* A mutant: the truncation works on the previous agent's own list, which is
\* left truncated.
OnEnter_TruncatesInPlace ==
    /\ sessPc = "enter"
    /\ LET own == chat_ctx[current_agent]
           hasPrev == prev_agent # "None"
           prevItems == IF hasPrev THEN chat_ctx[prev_agent] ELSE <<>>
           ctx == on_enter_ctx(own, hasPrev, prevItems, ClassName(current_agent), nextId)
       IN /\ chat_ctx' = [p \in Personas |->
                            IF p = current_agent THEN ctx
                            ELSE IF p = prev_agent
                                 THEN truncate_chat_ctx(prevItems, KeepLastDefault, FALSE, TRUE)
                                 ELSE chat_ctx[p]]
          /\ entered' = [agent |-> current_agent, own |-> own, hasPrev |-> hasPrev,
                         prevItems |-> prevItems, ctx |-> ctx, id |-> nextId,
                         installed |-> TRUE, signalled |-> FALSE]
    /\ nextId' = nextId + 1
    /\ sessPc' = "reply"
    /\ UNCHANGED <<current_agent, prev_agent, transfers, keyErrors>>
    /\ UNCHANGED <<aggVars, ctmVars>>

\* on_enter up to `await self.update_chat_ctx(chat_ctx)`.
OnEnter ==
    /\ sessPc = "enter"
    /\ LET own == chat_ctx[current_agent]
           hasPrev == prev_agent # "None"
           prevItems == IF hasPrev THEN chat_ctx[prev_agent] ELSE <<>>
           ctx == on_enter_ctx(own, hasPrev, prevItems, ClassName(current_agent), nextId)
       IN /\ chat_ctx' = [chat_ctx EXCEPT ![current_agent] = ctx]
          /\ entered' = [agent |-> current_agent, own |-> own, hasPrev |-> hasPrev,
                         prevItems |-> prevItems, ctx |-> ctx, id |-> nextId,
                         installed |-> TRUE, signalled |-> FALSE]
    /\ nextId' = nextId + 1
    /\ sessPc' = "reply"
    /\ UNCHANGED <<current_agent, prev_agent, transfers, keyErrors>>
    /\ UNCHANGED <<aggVars, ctmVars>>

\* self.session.generate_reply()
GenerateReply ==
    /\ sessPc = "reply"
    /\ entered' = [entered EXCEPT !.signalled = TRUE]
    /\ sessPc' = "idle"
    /\ UNCHANGED <<current_agent, prev_agent, transfers, chat_ctx, nextId, keyErrors>>
    /\ UNCHANGED <<aggVars, ctmVars>>

\* A turn of the conversation: the session appends what the user said to the
\* current agent's context.
UserMessage ==
    /\ sessPc = "idle"
    /\ nextId < MaxItems
    /\ chat_ctx' = [chat_ctx EXCEPT ![current_agent] =
                       Append(@, Message(nextId, "user", <<"hi">>))]
    /\ nextId' = nextId + 1
    /\ UNCHANGED <<current_agent, prev_agent, transfers, sessPc, entered, keyErrors>>
    /\ UNCHANGED <<aggVars, ctmVars>>

\* A turn in which the agent calls a tool: the call and its output are
\* appended to the current agent's context.
ToolCall ==
    /\ sessPc = "idle"
    /\ nextId + 1 < MaxItems
    /\ chat_ctx' = [chat_ctx EXCEPT ![current_agent] =
                       @ \o <<FunctionCall(nextId), FunctionCallOutput(nextId + 1)>>]
    /\ nextId' = nextId + 2
    /\ UNCHANGED <<current_agent, prev_agent, transfers, sessPc, entered, keyErrors>>
    /\ UNCHANGED <<aggVars, ctmVars>>

\* What a call of _transfer_to_agent(name) does to the session: on a KeyError
\* the tool ends there; otherwise the session makes the returned agent current
\* and its on_enter is due.
Transfer(name) ==
    LET r == transfer_to_agent(name, current_agent, prev_agent) IN
    /\ prev_agent' = r.prev_agent
    /\ current_agent' = r.next_agent
    /\ IF r.raised
       THEN /\ keyErrors' = keyErrors + 1
            /\ UNCHANGED <<transfers, sessPc, entered>>
       ELSE /\ transfers' = Append(transfers, [from |-> current_agent, to |-> name])
            /\ sessPc' = "enter"
            /\ entered' = Entering(r.next_agent)
            /\ keyErrors' = keyErrors
    /\ UNCHANGED <<chat_ctx, nextId>>

\* A transfer tool of the active agent runs: it announces the transfer, calls
\* _transfer_to_agent and returns the agent, which the session makes current.
TransferTool ==
    /\ sessPc = "idle"
    /\ Len(transfers) < MaxTransfers
    /\ nextId <= MaxItems
    /\ \E name \in TransferTools(current_agent) : Transfer(name)
    /\ UNCHANGED <<aggVars, ctmVars>>

\* Names that are no key of the registry; the keys are case-sensitive.
UnknownNames == {"pharmacy", "Billing"}

\* _transfer_to_agent called with a name that is not registered.
TransferUnknown ==
    /\ sessPc = "idle"
    /\ keyErrors < MaxKeyErrors
    /\ \E name \in UnknownNames : Transfer(name)
    /\ UNCHANGED <<aggVars, ctmVars>>

\* ------------------------------------------------------------ context transfer on its own
\* The kinds of item a source history is made of.
ItemKinds == {"system", "user", "assistant", "function_call", "function_call_output"}
MakeItem(kind, id) ==
    CASE kind = "function_call" -> FunctionCall(id)
      [] kind = "function_call_output" -> FunctionCallOutput(id)
      [] OTHER -> Message(id, kind, <<"text">>)

\* A history is built item by item; ids count from 0.
AddItem ==
    /\ ctmPc = "build"
    /\ Len(items) < MaxLen
    /\ \E kind \in ItemKinds : items' = Append(items, MakeItem(kind, Len(items)))
    /\ UNCHANGED <<keep_last_n_messages, keep_system_message, keep_function_call,
                   new_items, dest, once, copies, ctmPc>>
    /\ UNCHANGED <<aggVars, sessVars>>

\* _truncate_chat_ctx(items, n, keep_system_message, keep_function_call)
Truncate ==
    /\ ctmPc = "build"
    /\ \E n \in 0..MaxKeep, ks \in BOOLEAN, kc \in BOOLEAN :
          /\ keep_last_n_messages' = n
          /\ keep_system_message' = ks
          /\ keep_function_call' = kc
          /\ new_items' = truncate_chat_ctx(items, n, ks, kc)
    /\ ctmPc' = "truncated"
    /\ UNCHANGED <<items, dest, once, copies>>
    /\ UNCHANGED <<aggVars, sessVars>>

\* The copy of on_enter, from the history to a destination that is empty or
\* already holds the history's first item; it can be repeated once.
CopyHistory ==
    /\ ctmPc \in {"build", "copied"}
    /\ copies < 2
    /\ \E start \in (IF ctmPc = "copied" THEN {dest}
                     ELSE IF items = <<>> THEN {<<>>} ELSE {<<>>, <<items[1]>>}) :
          LET d == extend_new(start, truncate_chat_ctx(items, KeepLastDefault, FALSE, TRUE))
          IN /\ dest' = d
             /\ once' = IF copies = 0 THEN d ELSE once
    /\ copies' = copies + 1
    /\ ctmPc' = "copied"
    /\ UNCHANGED <<items, keep_last_n_messages, keep_system_message,
                   keep_function_call, new_items>>
    /\ UNCHANGED <<aggVars, sessVars>>

\* ------------------------------------------------------------ specification
Init ==
    /\ dbConfigured \in BOOLEAN
    /\ conn = "none"
    /\ rows = 0
    /\ wsOpen = TRUE
    /\ serving = "none"
    /\ pc = "idle"
    /\ nreq = 0
    /\ req = Unset
    /\ user_language = DefaultLanguage
    /\ step = 1
    /\ slot = NoSlots
    /\ result = Unset
    /\ err = Unset
    /\ reply = NoReply
    /\ invoked = <<>>
    /\ outcome = NoOutcome
    /\ collected = Unset
    /\ lastSave = "none"
    /\ current_agent = "triage"
    /\ prev_agent = "None"
    /\ transfers = <<>>
    /\ chat_ctx = [p \in Personas |-> <<>>]
    /\ nextId = 1
    /\ sessPc = "enter"
    /\ entered = Entering("triage")
    /\ keyErrors = 0
    /\ items = <<>>
    /\ keep_last_n_messages = KeepLastDefault
    /\ keep_system_message = FALSE
    /\ keep_function_call = FALSE
    /\ new_items = <<>>
    /\ dest = <<>>
    /\ once = <<>>
    /\ copies = 0
    /\ ctmPc = "build"

vars == <<aggVars, sessVars, ctmVars>>

Next ==
    \/ WsReceive
    \/ WsNoAudio
    \/ WsDecode
    \/ FlowInvoke
    \/ FlowReturn
    \/ FlowRaise
    \/ FlowCancel
    \/ FlowFinish
    \/ SaveBegin
    \/ SaveConnect
    \/ SaveInsert
    \/ SaveClose
    \/ WsSend
    \/ WsSendError
    \/ RestRequest
    \/ RestTriageReturn
    \/ RestRaise
    \/ RestTranslationReturn
    \/ RestReturn

Spec == Init /\ [][Next]_vars

\* The voice session on its own: on_enter, the turns of the conversation and
\* the transfers the agents' tools make.
SessionNext ==
    \/ OnEnter
    \/ GenerateReply
    \/ UserMessage
    \/ ToolCall
    \/ TransferTool

\* The voice worker does not read DATABASE_URL.
SessionInit == Init /\ ~dbConfigured

SessionSpec == SessionInit /\ [][SessionNext]_vars

\* The session with _transfer_to_agent also called with names that are not
\* registered.
TransferNext ==
    \/ SessionNext
    \/ TransferUnknown

TransferSpec == SessionInit /\ [][TransferNext]_vars

\* _truncate_chat_ctx and the copy of on_enter over every history and
\* parameter setting within the bounds.
CtmNext ==
    \/ AddItem
    \/ Truncate
    \/ CopyHistory

CtmSpec == SessionInit /\ [][CtmNext]_vars

\* Fairness of the event loop: a handler that can run does run, and httpx
\* (default timeout) and asyncpg.connect (timeout=60) end every call they
\* make.  conn.execute and conn.close are awaited with no timeout, a client
\* need not send, and nothing obliges a cancellation: none of these is fair.
FairSpec ==
    /\ Spec
    /\ WF_vars(WsNoAudio \/ WsDecode \/ FlowInvoke \/ FlowFinish \/ SaveBegin
               \/ WsSend \/ WsSendError \/ RestReturn)
    /\ WF_vars(FlowReturn \/ FlowRaise \/ RestTriageReturn \/ RestRaise
               \/ RestTranslationReturn)
    /\ WF_vars(SaveConnect)

\* ------------------------------------------------------------ vocabulary of the claims
\* The unit of work is a /ws/triage message that carries audio.
FlowUnit == "audio" \in DOMAIN req
Settled(k) == outcome[k].kind \in {"returned", "raised"}
Failed(k) == outcome[k].kind = "raised"
Succeeded(k) == outcome[k].kind = "returned"
\* run_emergency_flow has returned its dict.
FlowReturned == FlowUnit /\ "voice" \in DOMAIN result
\* The failure marker of an entry: the "error" field of a dict entry; the
\* translation entry is a str, and is itself the marker when it starts with
\* the translation label.
HasMarker(k, entry) ==
    IF k = "translation"
    THEN Len(entry) > 0 /\ entry[1] = "translation_error: "
    ELSE "error" \in DOMAIN entry
MarkerOf(k, entry) == IF k = "translation" THEN entry ELSE entry.error

\* ------------------------------------------------------------ C1
\* C1: whichever of the six capability calls raise, run_emergency_flow does
\* not raise (no error path is taken once a call has been issued), and once
\* the six calls are settled it returns a dict whose key set is the fixed set
\* of seven keys, the six capability keys among them.
C1_AllKeysForAnyFailures ==
    /\ (FlowUnit /\ invoked # <<>>) => (pc # "send_error" /\ reply.kind # "error")
    /\ (FlowUnit /\ (\A k \in Caps : Settled(k)) /\ pc # "call") => FlowReturned
    /\ FlowReturned =>
          /\ DOMAIN result = ResultKeys
          /\ {"voice", "triage", "translation", "history", "vitals", "insurance"}
                \subseteq DOMAIN result

C1_Witness_AllSixFail == FlowReturned /\ \A k \in Caps : Failed(k)

\* ------------------------------------------------------------ C2
\* C2 (the claim as stated): with translation failing and triage succeeding
\* with severity 2, the translation entry holds the empty-string degraded
\* value next to its failure marker, and the triage severity is 2.
C2_TranslationDegradedToEmpty ==
    (FlowReturned /\ Failed("translation") /\ Succeeded("triage")
        /\ "esi_level" \in DOMAIN outcome["triage"].value
        /\ outcome["triage"].value.esi_level = 2)
    => /\ result["translation"] = <<>>
       /\ result["triage"].esi_level = 2

SuccessKeys(k) ==
    CASE k = "voice" -> {"text", "language", "panic"}
      [] k = "triage" -> {"esi_level", "analysis"}
      [] k = "history" -> DOMAIN collect_history([detail |-> <<>>])
      [] k = "vitals" -> DOMAIN analyze_vitals([kind |-> "Exception"])
      [] k = "insurance" -> {"verified", "provider"}

\* C4 (the claim as stated): a failed capability's entry has the shape of a
\* successful one and holds the degraded value (severity 5, empty translation,
\* unknown vitals); the marker field is all that is added.
C4_DegradedEntryHasSuccessShape ==
    FlowReturned =>
       \A k \in Caps :
          Failed(k) =>
             IF k = "translation"
             THEN result[k] = <<>>
             ELSE /\ DOMAIN result[k] \ {"error"} = SuccessKeys(k)
                  /\ "error" \in DOMAIN result[k]
                  /\ (k = "triage" => result[k].esi_level = 5)
                  /\ (k = "vitals" => result[k].stress_level = <<"unknown">>)

\* ------------------------------------------------------------ C5
\* C5: whatever set of calls raised, the flow still returns, and the entry of
\* every capability whose call returned is the returned value, unchanged;
\* while the flow runs, the local of a returned call keeps that value.
C5_SuccessfulEntriesUnchanged ==
    /\ (FlowUnit /\ pc \in {"call", "await"}) =>
          \A k \in Caps : Succeeded(k) => slot[k] = outcome[k].value
    /\ FlowReturned =>
          \A k \in Caps : Succeeded(k) => result[k] = outcome[k].value

C5_Witness_FailuresBesideSuccesses ==
    /\ FlowReturned
    /\ Failed("triage") /\ Failed("history")
    /\ Succeeded("voice") /\ Succeeded("translation") /\ Succeeded("vitals")
    /\ Succeeded("insurance")

\* ------------------------------------------------------------ C6
\* C6: the calls the flow has issued are, in order, a prefix of transcription,
\* triage, translation, history, vitals, insurance; a call is issued only when
\* every earlier one is settled, so translation is never issued before both
\* transcription and triage returned or were degraded.
C6_FixedOrderTranslationLast ==
    FlowUnit =>
       /\ Len(invoked) <= 6
       /\ \A i \in 1..Len(invoked) :
             /\ invoked[i].cap =
                   <<"voice", "triage", "translation", "history", "vitals", "insurance">>[i]
             /\ \A j \in 1..(i - 1) : Settled(invoked[j].cap)
       /\ (\E i \in 1..Len(invoked) : invoked[i].cap = "translation")
             => (Settled("voice") /\ Settled("triage"))

C6_Witness_AllInvokedAfterDegraded ==
    /\ FlowUnit /\ Len(invoked) = 6
    /\ Failed("voice") /\ Failed("triage")

\* ------------------------------------------------------------ C7
\* C7: in both handlers, what is delivered is the composite as it was computed
\* before save_triage_log was called, whatever save_triage_log did; while and
\* after it runs the composite is not changed and no error path is taken.
C7_PersistenceNeverAltersResult ==
    /\ reply.kind = "json" => reply.body = collected
    /\ pc \in {"persist", "connecting", "inserting", "closing", "send"}
          => result = collected
    /\ lastSave # "none" => (pc # "send_error" /\ reply.kind \in {"none", "json"})

C7_Witness_DeliveredAfterCloseFailed ==
    /\ reply.kind = "json"
    /\ lastSave = "close_failed"
    /\ FlowUnit

\* ------------------------------------------------------------ C8
\* C8 (the claim as stated): once the results are collected the composite is
\* eventually delivered, even if the persistence call never completes.
C8_DeliveryDoesNotWaitForPersistence ==
    (pc \in {"persist", "connecting", "inserting", "closing", "send"})
       ~> (reply.kind = "json")

\* ------------------------------------------------------------ C9
\* C9 (the claim as stated): when the request is cancelled while a capability
\* call is in flight, a response is still constructed, with every capability
\* key populated.
C9_CancelledFlowStillAnswers ==
    pc = "cancelled" =>
       /\ "voice" \in DOMAIN result
       /\ ResultKeys \subseteq DOMAIN result
       /\ reply.kind = "json"

\* ------------------------------------------------------------ C10
\* C10: every transfer sets prev_agent to the persona that was active just
\* before it and makes its target the active persona; from "triage",
\* transfer("billing") gives active billing / previous triage, and a following
\* transfer("triage") gives active triage / previous billing.
C10_TransferSetsActiveAndPrevious ==
    /\ transfers = <<>> => (current_agent = "triage" /\ prev_agent = "None")
    /\ transfers # <<>> =>
          /\ current_agent = transfers[Len(transfers)].to
          /\ prev_agent = transfers[Len(transfers)].from
    /\ \A i \in 1..Len(transfers) :
          transfers[i].from = (IF i = 1 THEN "triage" ELSE transfers[i - 1].to)
    /\ (Len(transfers) = 1 /\ transfers[1].to = "billing")
          => (current_agent = "billing" /\ prev_agent = "triage")
    /\ (Len(transfers) = 2 /\ transfers[1].to = "billing" /\ transfers[2].to = "triage")
          => (current_agent = "triage" /\ prev_agent = "billing")

C10_Witness_BillingAndBack ==
    /\ Len(transfers) = 2
    /\ transfers[1].to = "billing" /\ transfers[2].to = "triage"
    /\ current_agent = "triage" /\ prev_agent = "billing"

\* ------------------------------------------------------------ C11
\* C11: a call of _transfer_to_agent with a name that is not registered
\* raises (a KeyError is counted) and changes neither the active persona, nor
\* the previous-persona pointer, nor any persona's context; no transfer to a
\* name outside the registry ever takes effect.
C11_UnknownNameFailsFast ==
    /\ [][keyErrors' # keyErrors =>
             /\ current_agent' = current_agent
             /\ prev_agent' = prev_agent
             /\ chat_ctx' = chat_ctx
             /\ transfers' = transfers]_vars
    /\ [](/\ current_agent \in Personas
          /\ prev_agent \in Personas \cup {"None"}
          /\ \A i \in 1..Len(transfers) : transfers[i].to \in Personas)

C11_Witness_KeyErrorAfterTransfers ==
    /\ keyErrors = 1
    /\ Len(transfers) = 2
    /\ current_agent = "triage" /\ prev_agent = "billing"
    /\ Len(chat_ctx["billing"]) > 1

\* ------------------------------------------------------------ C12
\* _truncate_chat_ctx has been called on `items` with the parameters held in
\* keep_last_n_messages, keep_system_message and keep_function_call, and
\* new_items is what it returned.
Truncated == ctmPc = "truncated"

\* C12: for every keep_last_n_messages >= 0, every flag setting and every
\* source history at least that long, _truncate_chat_ctx returns at most
\* keep_last_n_messages items.
C12_AtMostKeepLastN ==
    (Truncated /\ Len(items) >= keep_last_n_messages)
       => Len(new_items) <= keep_last_n_messages

\* ------------------------------------------------------------ C13
\* C13: for every source history and every parameter setting, what
\* _truncate_chat_ctx returns is empty or begins with an item that is neither
\* a function call nor a function call output.
C13_NeverBeginsWithToolItem ==
    Truncated => (Len(new_items) = 0 \/ new_items[1].type \notin ToolTypes)

\* The window collected began with a tool output, which was dropped.
C13_Witness_LeadingOutputDropped ==
    /\ Truncated
    /\ keep_function_call /\ keep_last_n_messages = 2
    /\ Len(items) = 3
    /\ items[2].type = "function_call_output"
    /\ items[3].type = "message" /\ items[3].role = "user"
    /\ Len(new_items) = 1 /\ new_items[1].id = items[3].id

\* ------------------------------------------------------------ C14
\* [sys, msg(user, id=1), tool_call(id=2), tool_result(id=3), msg(assistant, id=4)]
Scenario ==
    <<Message(0, "system", <<"text">>), Message(1, "user", <<"text">>),
      FunctionCall(2), FunctionCallOutput(3), Message(4, "assistant", <<"text">>)>>

\* The call of the scenario: keepLastN = 3, keepSystem = false, keepToolCalls = true.
ScenarioRun ==
    /\ Truncated
    /\ items = Scenario
    /\ keep_last_n_messages = 3
    /\ ~keep_system_message
    /\ keep_function_call

\* C14 as stated: for the scenario's history and parameters the call returns
\* exactly [tool_call(2), tool_result(3), msg(4)].
C14_ScenarioKeepsToolPair == ScenarioRun => new_items = SubSeq(Scenario, 3, 5)

\* C14, amended: for the scenario's history and parameters the call returns
\* exactly [msg(4)]; the window [tool_call(2), tool_result(3), msg(4)] begins
\* with tool items, which are dropped.
C14_ScenarioReturnsLastMessage == ScenarioRun => new_items = <<Scenario[5]>>

C14_Witness_ScenarioRun == ScenarioRun /\ Len(new_items) = 1

\* ------------------------------------------------------------ C15
\* C15: copying the truncated history of the same source into the same
\* destination a second time leaves the destination as the first copy left
\* it: the second copy appends no item.
C15_SecondCopyAppendsNothing ==
    copies = 2 => (dest = once /\ Len(dest) = Len(once))

\* Two copies of a history with a tool pair between messages, into a
\* destination that already held the history's first item.
C15_Witness_CopiedTwice ==
    /\ copies = 2
    /\ Len(items) = 4
    /\ items[1].type = "message" /\ items[1].role = "user"
    /\ items[2].type = "function_call"
    /\ items[4].type = "message"
    /\ Len(dest) = 4
    /\ dest[1] = items[1]

\* ------------------------------------------------------------ C16
\* C16: after any sequence of transfers among the personas, back-transfers
\* and new turns in between included, no persona's context holds two items
\* with the same id.
C16_IdsUniquePerContext ==
    \A p \in Personas :
       \A i, j \in 1..Len(chat_ctx[p]) :
          chat_ctx[p][i].id = chat_ctx[p][j].id => i = j

\* triage -> billing -> triage with a turn in each: triage's context holds
\* its own turn once, and the turn made in billing.
C16_Witness_BackTransferWithTurns ==
    /\ Len(transfers) = 2
    /\ transfers[1].to = "billing" /\ transfers[2].to = "triage"
    /\ sessPc = "idle"
    /\ \E i \in 1..Len(chat_ctx["triage"]) :
          /\ chat_ctx["triage"][i].type = "message"
          /\ chat_ctx["triage"][i].role = "user"
          /\ \E j \in 1..Len(chat_ctx["billing"]) :
                chat_ctx["billing"][j].id = chat_ctx["triage"][i].id
    /\ \E i \in 1..Len(chat_ctx["triage"]) :
          /\ chat_ctx["triage"][i].type = "function_call"
          /\ \E j \in 1..Len(chat_ctx["billing"]) :
                chat_ctx["billing"][j].id = chat_ctx["triage"][i].id

\* ------------------------------------------------------------ C17
\* C17: a capability call that fails while a triage request is served, over
\* /ws/triage or over POST /api/triage, is never answered with an error
\* response; the response carries that capability's failure marker.
C17_FailuresNeverPropagate ==
    \A k \in Caps :
       Failed(k) =>
          /\ reply.kind \notin {"error", "http500"}
          /\ reply.kind = "json" => HasMarker(k, reply.body[k])

\* ------------------------------------------------------------ C18
\* The unit of work is a POST /api/triage request.
RestUnit == "symptoms" \in DOMAIN req

\* C18: for every POST /api/triage request whose triage and translation calls
\* return, no error is answered, and the response has exactly the seven keys,
\* with voice.text the request's symptoms, the triage entry the value the
\* triage call returned, and the translation entry the value the translation
\* call returned when asked for the request's language.
C18_RestResponseOnSuccess ==
    (RestUnit /\ Succeeded("triage") /\ Succeeded("translation")) =>
       /\ reply.kind \in {"none", "json"}
       /\ reply.kind = "json" => reply.body = result
       /\ DOMAIN result = ResultKeys
       /\ result.voice.text = req.symptoms
       /\ result.triage = outcome["triage"].value
       /\ result.translation = outcome["translation"].value
       /\ Len(invoked) = 2
       /\ invoked[2].cap = "translation"
       /\ invoked[2].input.target = req.language
       /\ result.translation \in Returns("translation", invoked[2].input)

\* The request of the test: symptoms with language "es", answered with the
\* translation "[es] ... (translated)".
C18_Witness_SpanishRequestAnswered ==
    /\ RestUnit
    /\ req.language = <<"es">>
    /\ Succeeded("triage") /\ Succeeded("translation")
    /\ reply.kind = "json"
    /\ reply.body.translation[1] = "["
    /\ reply.body.triage.esi_level = 2

\* ------------------------------------------------------------ C19
\* The reference of the claim.  An item survives unless it is a system
\* message and keepSystem is off, or a tool item and keepToolCalls is off.
Survives(item, keepSystem, keepToolCalls) ==
    /\ (item.type = "message" /\ item.role = "system") => keepSystem
    /\ item.type \in ToolTypes => keepToolCalls
Survivors(src, keepSystem, keepToolCalls) ==
    SelectSeq(src, LAMBDA item : Survives(item, keepSystem, keepToolCalls))
MinOf(a, b) == IF a <= b THEN a ELSE b
\* The k most recent items of s, in chronological order.
MostRecent(s, k) == SubSeq(s, Len(s) - k + 1, Len(s))
\* s from its first item that is no tool item.
FromFirstPlain(s) ==
    LET plain == {i \in 1..Len(s) : s[i].type \notin ToolTypes} IN
    IF plain = {}
    THEN <<>>
    ELSE SubSeq(s, CHOOSE i \in plain : \A j \in plain : i <= j, Len(s))
Reference(src, keepLastN, keepSystem, keepToolCalls) ==
    LET surv == Survivors(src, keepSystem, keepToolCalls) IN
    FromFirstPlain(MostRecent(surv, MinOf(keepLastN, Len(surv))))

\* C19: for every source history and parameter setting, _truncate_chat_ctx
\* returns the reference result: the excluded items removed, the most recent
\* min(keepLastN, number of survivors) survivors taken in chronological order,
\* the leading tool items dropped.
C19_EqualsReference ==
    Truncated =>
       new_items = Reference(items, keep_last_n_messages, keep_system_message,
                             keep_function_call)

\* ------------------------------------------------------------ C20
\* What the claim says on_enter appends from the previous persona: its
\* history truncated with keepLastN = 6, keepSystem = false and tool calls
\* kept, without the items whose id the persona's context already holds.
CopiedFromPrevious(own, prevItems) ==
    LET ids == {own[i].id : i \in 1..Len(own)} IN
    SelectSeq(truncate_chat_ctx(prevItems, 6, FALSE, TRUE),
              LAMBDA item : item.id \notin ids)
\* The system items of a context.
SystemItems(ctx) ==
    SelectSeq(ctx, LAMBDA item : item.type = "message" /\ item.role = "system")

\* C20: the context on_enter installs is the persona's existing items, then
\* (only when a previous persona is set) the truncated, id-deduplicated items
\* of the previous persona, then exactly one new system item that names the
\* active persona, as the last item; on the first entry only that system item
\* is appended; generate_reply is signalled only once this context is the
\* persona's context.
C20_EntryBuildsContextThenSignals ==
    /\ sessPc = "enter" => (~entered.installed /\ ~entered.signalled)
    /\ entered.signalled => entered.installed
    /\ sessPc = "reply" =>
          /\ entered.installed /\ ~entered.signalled
          /\ entered.agent = current_agent
          /\ chat_ctx[current_agent] = entered.ctx
          /\ entered.hasPrev = (prev_agent # "None")
          /\ entered.hasPrev = (transfers # <<>>)
          /\ entered.hasPrev => entered.prevItems = chat_ctx[prev_agent]
    /\ entered.installed =>
          LET own == entered.own
              ctx == entered.ctx
              copied == IF entered.hasPrev
                        THEN CopiedFromPrevious(own, entered.prevItems)
                        ELSE <<>>
              last == ctx[Len(ctx)]
          IN /\ Len(ctx) = Len(own) + Len(copied) + 1
             /\ \A i \in 1..Len(own) : ctx[i] = own[i]
             /\ \A i \in 1..Len(copied) : ctx[Len(own) + i] = copied[i]
             /\ last.type = "message" /\ last.role = "system"
             /\ last.content[2] = ClassName(entered.agent)
             /\ Len(SystemItems(ctx)) = Len(SystemItems(own)) + 1
             /\ ~entered.hasPrev => Len(ctx) = Len(own) + 1

\* billing is entered from triage after seven turns: six of them are copied,
\* the system item follows, and the reply has been signalled.
C20_Witness_EntryAfterSevenTurns ==
    /\ entered.signalled
    /\ entered.agent = "billing"
    /\ entered.hasPrev
    /\ Len(entered.prevItems) = 8
    /\ Len(entered.own) = 0
    /\ Len(entered.ctx) = 7

\* ------------------------------------------------------------ C21
\* C21: after any sequence of transfer requests, valid or not, the registry
\* is {triage, support, billing} and the contexts are kept per registered
\* persona; the active persona is one of the registry; the previous persona
\* is None exactly as long as no transfer has succeeded, and a registered
\* persona afterwards; and a step changes the active or the previous persona
\* only if it is a transfer that succeeds.
C21_RegistryAndPointers ==
    /\ [](/\ Personas = {"triage", "support", "billing"}
          /\ DOMAIN chat_ctx = Personas
          /\ current_agent \in Personas
          /\ prev_agent \in Personas \cup {"None"}
          /\ (prev_agent = "None") = (transfers = <<>>))
    /\ [][(current_agent' # current_agent \/ prev_agent' # prev_agent) =>
             /\ sessPc = "idle"
             /\ Len(transfers') = Len(transfers) + 1
             /\ keyErrors' = keyErrors
             /\ transfers'[Len(transfers')].to \in Personas]_vars

\* Three transfers have succeeded and a request for an unregistered name
\* has failed.
C21_Witness_ValidAndInvalidRequests ==
    /\ Len(transfers) = 3
    /\ keyErrors = 1
    /\ current_agent = "support"
    /\ prev_agent = "billing"

\* ------------------------------------------------------------ C22
\* save_triage_log is running.
Saving == pc \in {"persist", "connecting", "inserting", "closing"}

\* C22: without DATABASE_URL save_triage_log opens no connection, inserts no
\* row and returns without an error, the handler going on to its reply; and
\* a connection that was opened is never left open without conn.close()
\* having been awaited: once save_triage_log is over the connection is
\* closed, or close itself has raised, also after a failed insert.
C22_NoTargetNoOpAndAlwaysClosed ==
    /\ ~dbConfigured =>
          /\ conn = "none"
          /\ rows = 0
          /\ pc \notin {"connecting", "inserting", "closing"}
          /\ lastSave \in {"none", "no_target"}
    /\ lastSave = "no_target" =>
          /\ ~dbConfigured
          /\ pc \in {"send", "idle"}
          /\ err = Unset
          /\ reply.kind \in {"none", "json"}
    /\ (conn = "open" /\ ~Saving) => lastSave = "close_failed"
    /\ (lastSave \in {"saved", "insert_failed"} /\ ~Saving) => conn = "closed"
    /\ lastSave = "connect_failed" => conn = "none"

\* The insert failed, the connection was closed and the result was sent.
C22_Witness_ClosedAfterFailedInsert ==
    /\ lastSave = "insert_failed"
    /\ conn = "closed"
    /\ rows = 0
    /\ reply.kind = "json"

\* ------------------------------------------------------------ C23
\* The unit of work is a /ws/triage message.
WsUnit == "unset" \notin DOMAIN req /\ "symptoms" \notin DOMAIN req
Replied == reply.kind # "none"

\* What is replied to which message.
WsReplyRules ==
    /\ (WsUnit /\ ~HasAudio(req)) =>
          /\ invoked = <<>>
          /\ lastSave = "none" /\ conn = "none"
          /\ Replied => reply = [kind |-> "error", error |-> <<"No audio provided.">>]
    /\ (WsUnit /\ HasAudio(req) /\ ~b64decode(SplitLast(req.audio)).ok) =>
          /\ invoked = <<>>
          /\ Replied => (reply.kind = "error"
                         /\ reply.error = b64decode(SplitLast(req.audio)).exc.msg)
    /\ (WsUnit /\ reply.kind = "json") =>
          /\ HasAudio(req) /\ b64decode(SplitLast(req.audio)).ok
          /\ reply.body = collected
    /\ (WsUnit /\ Replied) => wsOpen

\* One reply per message, sent before the next message is read.
WsOneReply ==
    /\ (serving = "ws" /\ reply' # reply) =>
          /\ ~Replied
          /\ reply'.kind # "none"
          /\ serving' = "none"
    /\ (serving' = "ws" /\ nreq' # nreq) =>
          /\ serving = "none" /\ wsOpen
          /\ WsUnit => Replied

\* C23: every message received on /ws/triage gets exactly one reply before
\* the next one is read: the no-audio error without any capability call or
\* persistence, the error of a failed decoding or flow, or else the composite
\* result; and an error reply leaves the loop running.
C23_EveryMessageGetsOneReply ==
    /\ []WsReplyRules
    /\ [][WsOneReply]_vars
    /\ (serving = "ws" /\ pc = "received") ~> (serving = "none" /\ Replied)

\* ------------------------------------------------------------ C24
\* C24: in run_emergency_flow the triage call gets the transcription's text
\* and language, and the empty text and the caller's language when the
\* transcription failed; the translation call gets the text built from the
\* triage result's level, from the degraded level 5 when triage failed; its
\* target is the transcription's language, and the caller's language when
\* the transcription failed.
C24_DependentInputsFromDegradedResults ==
    FlowUnit =>
       /\ \A i \in 1..Len(invoked) : invoked[i].cap = Order[i]
       /\ Len(invoked) >= 2 =>
             /\ Failed("voice") =>
                   invoked[2].input = [text |-> <<>>, language |-> user_language]
             /\ Succeeded("voice") =>
                   /\ invoked[2].input.text = outcome["voice"].value.text
                   /\ "language" \in DOMAIN outcome["voice"].value =>
                         invoked[2].input.language = outcome["voice"].value.language
       /\ Len(invoked) >= 3 =>
             /\ Failed("triage") =>
                   invoked[3].input.text = <<"ESI Level: ", "5">>
             /\ (Succeeded("triage") /\ "esi_level" \in DOMAIN outcome["triage"].value) =>
                   invoked[3].input.text =
                      <<"ESI Level: ">> \o IntStr(outcome["triage"].value.esi_level)
             /\ Failed("voice") => invoked[3].input.target = user_language
             /\ (Succeeded("voice") /\ "language" \in DOMAIN outcome["voice"].value) =>
                   invoked[3].input.target = outcome["voice"].value.language

\* Transcription and triage both failed and translation was called with the
\* degraded level and the caller's language.
C24_Witness_BothFailedThenTranslation ==
    /\ FlowUnit
    /\ Failed("voice") /\ Failed("triage")
    /\ Len(invoked) >= 3
    /\ invoked[2].input.text = <<>>
    /\ invoked[3].input = [text |-> <<"ESI Level: ", "5">>, target |-> <<"auto">>]

\* ------------------------------------------------------------ C25
\* C25: an entry to a persona changes no other persona's context, the
\* previous persona's included: its items are the same sequence as before
\* the entry; and the entered persona's earlier items keep their positions,
\* the new items coming after them.
C25_EntryLeavesOtherContexts ==
    [][(sessPc = "enter" /\ sessPc' = "reply") =>
          /\ \A p \in Personas \ {current_agent} : chat_ctx'[p] = chat_ctx[p]
          /\ prev_agent # "None" => chat_ctx'[prev_agent] = chat_ctx[prev_agent]
          /\ Len(chat_ctx'[current_agent]) > Len(chat_ctx[current_agent])
          /\ \A i \in 1..Len(chat_ctx[current_agent]) :
                chat_ctx'[current_agent][i] = chat_ctx[current_agent][i]]_vars

\* triage is entered again from billing, whose history begins, after its
\* system item, with a tool pair: the pair is dropped from the copy and is
\* still in billing's context, and triage's first item is still first.
C25_Witness_ToolPairStaysInSource ==
    /\ sessPc = "reply"
    /\ current_agent = "triage" /\ prev_agent = "billing"
    /\ Len(entered.own) = 1
    /\ Len(chat_ctx["billing"]) = 4
    /\ chat_ctx["billing"][2].type = "function_call"
    /\ chat_ctx["billing"][3].type = "function_call_output"
    /\ Len(chat_ctx["triage"]) = 3
    /\ chat_ctx["triage"][1] = entered.own[1]

\* ------------------------------------------------------------ C26
\* The ordered pairs of personas between which a transfer was made.
Travelled == {<<transfers[i].from, transfers[i].to>> : i \in 1..Len(transfers)}

\* C26: the transfer tools of each persona lead to exactly the two other
\* personas, so no transfer made through them goes from a persona to itself,
\* and after every transfer the previous persona differs from the active one.
C26_NoSelfTransferThroughTools ==
    /\ \A a \in Personas : TransferTools(a) = Personas \ {a}
    /\ \A i \in 1..Len(transfers) : transfers[i].from # transfers[i].to
    /\ transfers # <<>> => prev_agent # current_agent

\* Each persona has been left for each other persona: all six transfers.
C26_Witness_AllSixTransfers ==
    /\ Cardinality(Travelled) = 6
    /\ sessPc = "idle"
====
